---- MODULE Spec2Model ----
(***************************************************************************)
(* icefit backend: registration, login, profile read and profile update    *)
(* over the users collection, with the health-metrics engine and the       *)
(* meal-plan assembler.                                                    *)
(*                                                                         *)
(* Numbers.  weight_kg, height_cm and age are whole numbers.  Every value  *)
(* the code rounds to two decimals (bmi, bmr, tdee,                        *)
(* recommended_weight_change) is held in hundredths: bmi 24.31 is 2431.    *)
(* recommended_daily_calories is the integer the code stores.  Python's    *)
(* round(x, 2) is round-half-even on the binary float; at an exact decimal *)
(* tie the float's last bit decides.  The input sets below hold no input   *)
(* with such a tie, so RoundDiv agrees with the code on all of them.       *)
(*                                                                         *)
(* Documents.  A stored user is a function from field names to values, as  *)
(* the dict the code builds; a field that is not set is not in its DOMAIN. *)
(* The free-text fields of the document (first_name, last_name,            *)
(* date_of_birth, target_date, medical_conditions, allergies, medications, *)
(* dietary_restrictions, daily_calorie_goal) are read by no handler and    *)
(* are left out.                                                           *)
(*                                                                         *)
(* Time.  now is the time of the latest handler step that read the clock   *)
(* (datetime.utcnow); each such step sees a time later than every earlier  *)
(* one, and the reads inside one step are one instant.                     *)
(*                                                                         *)
(* Calls.  SpecMetrics and SpecMealPlan apply the functions of             *)
(* UserCalculationService and GeminiMealPlanService to arguments drawn in  *)
(* the initial state; resp then holds the call and what it returned or     *)
(* that it raised.  The text of an AI response is a sequence of symbols,   *)
(* the fences being one symbol each.                                       *)
(***************************************************************************)
EXTENDS Integers, Sequences, FiniteSets, TLC

\* ------------------------------------------------------------- bounds
MaxClock == 3
\* the longest AI response text, in symbols
MaxText == 4

\* ------------------------------------------------------- input sets
\* the connections a request can arrive on; they are interchangeable, and a new
\* request is taken by the lowest idle one
Clients == {1, 2}
Emails == {"ann@x.io", "bob@x.io"}
Usernames == {"ann", "bob"}
Passwords == {"pw1"}
LoginPasswords == {"pw1", "bad"}
Genders == {"male"}
Ages == {30}
Heights == {175}
Weights == {90}
Goals == {"lose_weight"}
Activities == {"moderate"}
\* target_weight_kg of a registration: absent (<<>>) or given
OptTargets == {<<>>}

EmptyMap == [k \in {} |-> 0]

\* ---------------------------------------------------- MetricsEngine
RoundPos(n, d) ==
    LET q == n \div d
        r == n % d
    IN  IF 2 * r > d \/ (2 * r = d /\ q % 2 = 1) THEN q + 1 ELSE q

\* round(n / d) for d > 0, half to even
RoundDiv(n, d) == IF n >= 0 THEN RoundPos(n, d) ELSE 0 - RoundPos(0 - n, d)

\* int(n / d): truncation toward zero
TruncDiv(n, d) == IF n >= 0 THEN n \div d ELSE 0 - ((0 - n) \div d)

\* height_m = height_cm / 100; round(weight_kg / height_m ** 2, 2), in hundredths
calculate_bmi(weight_kg, height_cm) ==
    RoundDiv(weight_kg * 1000000, height_cm * height_cm)

\* get_bmi_status with 18.5 itself counted underweight
get_bmi_status_low_boundary(bmi) ==
    IF bmi <= 1850 THEN "underweight"
    ELSE IF 1850 <= bmi /\ bmi < 2500 THEN "normal"
    ELSE IF 2500 <= bmi /\ bmi < 3000 THEN "overweight"
    ELSE "obese"

get_bmi_status(bmi) ==
    IF bmi < 1850 THEN "underweight"
    ELSE IF 1850 <= bmi /\ bmi < 2500 THEN "normal"
    ELSE IF 2500 <= bmi /\ bmi < 3000 THEN "overweight"
    ELSE "obese"

\* calculate_recommended_weight returning the BMI 24 weight in the normal bracket too
calculate_recommended_weight_no_sentinel(height_cm, bmi_status) ==
    IF bmi_status \in {"underweight"} THEN RoundDiv(20 * height_cm * height_cm, 100)
    ELSE RoundDiv(24 * height_cm * height_cm, 100)

\* round(20 * height_m ** 2, 2) and round(24 * height_m ** 2, 2), in hundredths
calculate_recommended_weight(height_cm, bmi_status) ==
    IF bmi_status \in {"underweight"} THEN RoundDiv(20 * height_cm * height_cm, 100)
    ELSE IF bmi_status = "normal" THEN 0
    ELSE RoundDiv(24 * height_cm * height_cm, 100)

\* str.lower on the gender strings the model passes in
lower(s) ==
    CASE s = "MALE" -> "male"
      [] s = "Male" -> "male"
      [] s = "Female" -> "female"
      [] OTHER -> s

\* calculate_bmr comparing the gender as given, without lower()
calculate_bmr_case_sensitive(weight_kg, height_cm, age, gender) ==
    IF gender = "male"
    THEN 1000 * weight_kg + 625 * height_cm - 500 * age + 500
    ELSE 1000 * weight_kg + 625 * height_cm - 500 * age - 16100

\* 10 w + 6.25 h - 5 age + 5 (gender.lower() is male) or - 161 (any other), in hundredths
calculate_bmr(weight_kg, height_cm, age, gender) ==
    IF lower(gender) = "male"
    THEN 1000 * weight_kg + 625 * height_cm - 500 * age + 500
    ELSE 1000 * weight_kg + 625 * height_cm - 500 * age - 16100

\* activity_multiplier falling back to the moderate multiplier
activity_multiplier_default_moderate(activity_level) ==
    CASE activity_level = "sedentary" -> 1200
      [] activity_level = "light" -> 1375
      [] activity_level = "moderate" -> 1550
      [] activity_level = "active" -> 1725
      [] activity_level = "very_active" -> 1900
      [] OTHER -> 1550

\* activity_multipliers.get(activity_level, 1.2), in thousandths
activity_multiplier(activity_level) ==
    CASE activity_level = "sedentary" -> 1200
      [] activity_level = "light" -> 1375
      [] activity_level = "moderate" -> 1550
      [] activity_level = "active" -> 1725
      [] activity_level = "very_active" -> 1900
      [] OTHER -> 1200

calculate_tdee(bmr, activity_level) ==
    RoundDiv(bmr * activity_multiplier(activity_level), 1000)

\* calculate_calorie_goal taking the larger deficit from 10 kg on
calculate_calorie_goal_from_ten(tdee, goal, target_weight_kg, current_weight_kg) ==
    IF goal = "lose_weight"
    THEN LET weight_to_lose == current_weight_kg - target_weight_kg
         IN  IF weight_to_lose >= 10
             THEN TruncDiv(tdee - 75000, 100)
             ELSE TruncDiv(tdee - 50000, 100)
    ELSE IF goal = "gain_weight" \/ goal = "build_muscle"
    THEN TruncDiv(tdee + 40000, 100)
    ELSE TruncDiv(tdee, 100)

\* tdee in hundredths; the result is the integer int(...) returns
calculate_calorie_goal(tdee, goal, target_weight_kg, current_weight_kg) ==
    IF goal = "lose_weight"
    THEN LET weight_to_lose == current_weight_kg - target_weight_kg
         IN  IF weight_to_lose > 10
             THEN TruncDiv(tdee - 75000, 100)
             ELSE TruncDiv(tdee - 50000, 100)
    ELSE IF goal = "gain_weight" \/ goal = "build_muscle"
    THEN TruncDiv(tdee + 40000, 100)
    ELSE TruncDiv(tdee, 100)

\* calculate_bmi divides by height_m ** 2: ZeroDivisionError when height_cm = 0
MetricsRaises(user_data) == user_data["height_cm"] = 0

MetricKeys ==
    {"bmi", "bmi_status", "recommended_weight_change", "bmr", "tdee",
     "recommended_daily_calories"}

calculate_all_metrics(user_data) ==
    LET weight_kg == user_data["weight_kg"]
        height_cm == user_data["height_cm"]
        \* user_data.get('target_weight_kg'); target_weight_kg or weight_kg
        target_weight ==
            IF "target_weight_kg" \in DOMAIN user_data
               /\ user_data["target_weight_kg"] # 0
            THEN user_data["target_weight_kg"]
            ELSE weight_kg
        bmi == calculate_bmi(weight_kg, height_cm)
        bmi_status == get_bmi_status(bmi)
        recommended_weight == calculate_recommended_weight(height_cm, bmi_status)
        recommended_weight_change ==
            IF recommended_weight # 0 THEN recommended_weight - 100 * weight_kg ELSE 0
        bmr == calculate_bmr(weight_kg, height_cm, user_data["age"], user_data["gender"])
        tdee == calculate_tdee(bmr, user_data["activity_level"])
    IN  [bmi |-> bmi,
         bmi_status |-> bmi_status,
         recommended_weight_change |-> recommended_weight_change,
         bmr |-> bmr,
         tdee |-> tdee,
         recommended_daily_calories |->
             calculate_calorie_goal(tdee, user_data["goal"], target_weight, weight_kg)]

\* ------------------------------------------------------------ state
VARIABLES
    users,    \* db.users: the stored documents in insertion order; _id is the position
    now,      \* the time of the latest clock read
    tokens,   \* the subjects (user ids) of the token pairs issued so far
    pc,       \* per client: where its request stands (between two awaits)
    loc,      \* per client: the locals of its request
    resp      \* the response sent last, until a connection takes the next request

vars == <<users, now, tokens, pc, loc, resp>>

\* a token whose signature does not verify (AuthService.verify_token raises 401)
ForgedToken == 0

\* ---------------------------------------------------------- storage
Ids == 1..Len(users)

\* find_one({field: value}): the first matching document's id, 0 when there is none
FindOne(field, value) ==
    LET hits == {i \in Ids : users[i][field] = value}
    IN  IF hits = {} THEN 0 ELSE CHOOSE i \in hits : \A j \in hits : i <= j

\* update_one({"_id": id}, {"$set": fields}): the fields replace or extend the document
SetFields(doc, fields) == fields @@ doc

\* ------------------------------------------------------- collaborators
\* bcrypt.hashpw, as an opaque injective function of the password
hash_password(password) == "$2b$" \o password

verify_password(password, hashed_password) == hashed_password = hash_password(password)

\* ----------------------------------------------------------- models
\* set_target_weight adding 10 kg for build_muscle as for gain_weight
set_target_weight_build_ten(input) ==
    IF "target_weight_kg" \in DOMAIN input THEN input["target_weight_kg"]
    ELSE IF input["goal"] = "lose_weight" THEN input["weight_kg"] - 10
    ELSE IF input["goal"] \in {"gain_weight", "build_muscle"} THEN input["weight_kg"] + 10
    ELSE input["weight_kg"]

\* UserRegisterModel.set_target_weight
set_target_weight(input) ==
    IF "target_weight_kg" \in DOMAIN input THEN input["target_weight_kg"]
    ELSE IF input["goal"] = "lose_weight" THEN input["weight_kg"] - 10
    ELSE IF input["goal"] = "gain_weight" THEN input["weight_kg"] + 10
    ELSE IF input["goal"] = "build_muscle" THEN input["weight_kg"] + 5
    ELSE input["weight_kg"]

\* the validated model: target weight defaulted, created_at and updated_at stamped
UserRegisterModel(input, t) ==
    [target_weight_kg |-> set_target_weight(input), created_at |-> t, updated_at |-> t]
        @@ input

RegInputs ==
    {[email |-> e, username |-> u, password |-> p, gender |-> g, age |-> a,
      height_cm |-> h, weight_kg |-> w, goal |-> gl, activity_level |-> al]
        @@ (IF t = <<>> THEN EmptyMap ELSE [target_weight_kg |-> t[1]]) :
        e \in Emails, u \in Usernames, p \in Passwords, g \in Genders, a \in Ages,
        h \in Heights, w \in Weights, gl \in Goals, al \in Activities,
        t \in OptTargets}

\* ------------------------------------------------------- UserService
prepare_user_for_db(user_data) ==
    LET metrics == calculate_all_metrics(user_data)
    IN  [email |-> user_data["email"],
         username |-> user_data["username"],
         password_hash |-> hash_password(user_data["password"]),
         gender |-> user_data["gender"],
         age |-> user_data["age"],
         height_cm |-> user_data["height_cm"],
         weight_kg |-> user_data["weight_kg"],
         goal |-> user_data["goal"],
         target_weight_kg |-> user_data["target_weight_kg"],
         activity_level |-> user_data["activity_level"],
         bmi |-> metrics["bmi"],
         bmi_status |-> metrics["bmi_status"],
         recommended_weight_change |-> metrics["recommended_weight_change"],
         recommended_daily_calories |-> metrics["recommended_daily_calories"],
         bmr |-> metrics["bmr"],
         tdee |-> metrics["tdee"],
         created_at |-> user_data["created_at"],
         updated_at |-> user_data["updated_at"],
         is_active |-> TRUE]

SensitiveKeys == {"password_hash", "_id"}

\* get_user_response with the pop of password_hash forgotten
get_user_response_keeps_hash(user_doc) ==
    [k \in DOMAIN user_doc \ {"_id"} |-> user_doc[k]]

get_user_response(user_doc) ==
    [k \in DOMAIN user_doc \ SensitiveKeys |-> user_doc[k]]

\* ------------------------------------------------------------- init
Idle(c) == pc[c] = "idle"

\* connection c takes a new request
Accepts(c) == Idle(c) /\ \A d \in Clients : d < c => ~Idle(d)

NoLocals == EmptyMap

NoResponse == [op |-> "none", status |-> 0]

Init ==
    /\ users = <<>>
    /\ now = 0
    /\ tokens = {}
    /\ pc = [c \in Clients |-> "idle"]
    /\ loc = [c \in Clients |-> NoLocals]
    /\ resp = NoResponse

\* requests in flight that will still read the clock
ClockReaders == {c \in Clients : pc[c] \in {"upd_write", "login_write"}}

Finish(c, response) ==
    /\ pc' = [pc EXCEPT ![c] = "idle"]
    /\ loc' = [loc EXCEPT ![c] = NoLocals]
    /\ resp' = response

Goto(c, label, locals) ==
    /\ pc' = [pc EXCEPT ![c] = label]
    /\ loc' = [loc EXCEPT ![c] = locals]
    /\ resp' = IF Idle(c) THEN NoResponse ELSE resp

\* ---------------------------------------------------- POST /register
\* existing_user = find_one({"email": user.email})
existing_user(user) == FindOne("email", user["email"])

\* the username lookup querying the email field
existing_username_by_email(user) == FindOne("email", user["username"])

\* existing_username = find_one({"username": user.username})
existing_username(user) == FindOne("username", user["username"])

BadRequest(detail) == [op |-> "register", status |-> 400, detail |-> detail]

\* the request body is validated into a UserRegisterModel (the clock is read)
RegisterStart(c, input) ==
    /\ Accepts(c)
    /\ now + Cardinality(ClockReaders) < MaxClock
    /\ now' = now + 1
    /\ Goto(c, "reg_email", [user |-> UserRegisterModel(input, now + 1)])
    /\ UNCHANGED <<users, tokens>>

\* find_one by email
RegisterEmail(c) ==
    /\ pc[c] = "reg_email"
    /\ UNCHANGED <<users, tokens, now>>
    /\ IF existing_user(loc[c]["user"]) # 0
       THEN Finish(c, BadRequest("User with this email already exists"))
       ELSE Goto(c, "reg_username", loc[c])

\* find_one by username
RegisterUsername(c) ==
    /\ pc[c] = "reg_username"
    /\ UNCHANGED <<users, tokens, now>>
    /\ IF existing_username(loc[c]["user"]) # 0
       THEN Finish(c, BadRequest("Username already taken"))
       ELSE Goto(c, "reg_insert", loc[c])

\* prepare_user_for_db, insert_one
RegisterInsert(c) ==
    /\ pc[c] = "reg_insert"
    /\ LET id == Len(users) + 1
           user_doc == prepare_user_for_db(loc[c]["user"])
       IN  /\ users' = Append(users, [_id |-> id] @@ user_doc)
           /\ Goto(c, "reg_fetch", [inserted_id |-> id])
    /\ UNCHANGED <<tokens, now>>

\* find_one by the inserted id, get_user_response, create_tokens
RegisterRespond(c) ==
    /\ pc[c] = "reg_fetch"
    /\ LET id == loc[c]["inserted_id"]
       IN  /\ tokens' = tokens \cup {id}
           /\ Finish(c, [op |-> "register", status |-> 201,
                         user |-> get_user_response(users[id]), tokens |-> id])
    /\ UNCHANGED <<users, now>>

\* ------------------------------------------------- get_current_user
\* the tokens a client can present: an issued pair's access token, or a forged one
Presentable == tokens \cup {ForgedToken}

\* get_user_id_from_token, find_one by id, the is_active check: TRUE when the
\* dependency returns the user, FALSE when it raises 401
Authenticated(tok) ==
    /\ tok # ForgedToken
    /\ tok \in Ids
    /\ users[tok]["is_active"]

Unauthorized(op) == [op |-> op, status |-> 401]

\* ------------------------------------------------------ GET /profile
GetProfile(c, tok) ==
    /\ Accepts(c)
    /\ UNCHANGED <<users, tokens, now>>
    /\ IF Authenticated(tok)
       THEN Finish(c, [op |-> "get_profile", status |-> 200,
                       user |-> get_user_response(users[tok])])
       ELSE Finish(c, Unauthorized("get_profile"))

\* ------------------------------------------------------ PUT /profile
TriggerKeys == {"weight_kg", "height_cm", "age", "gender", "activity_level", "goal"}

recalculate_metrics(updates) == \E key \in TriggerKeys : key \in DOMAIN updates

\* user_data = dict(current_user); every key of updates that is in user_data replaces it
merged_user_data(current_user, updates) ==
    [key \in DOMAIN current_user |->
        IF key \in DOMAIN updates THEN updates[key] ELSE current_user[key]]

\* update_set with the updated_at stamp forgotten
update_set_unstamped(current_user, updates, t) ==
    (IF recalculate_metrics(updates)
     THEN calculate_all_metrics(merged_user_data(current_user, updates))
     ELSE EmptyMap)
        @@ updates

\* update_set stamping created_at along with updated_at
update_set_restamps_created(current_user, updates, t) ==
    [updated_at |-> t, created_at |-> t]
        @@ (IF recalculate_metrics(updates)
            THEN calculate_all_metrics(merged_user_data(current_user, updates))
            ELSE EmptyMap)
        @@ updates

\* the map handed to $set: updates, then updates.update(metrics), then updated_at
update_set(current_user, updates, t) ==
    [updated_at |-> t]
        @@ (IF recalculate_metrics(updates)
            THEN calculate_all_metrics(merged_user_data(current_user, updates))
            ELSE EmptyMap)
        @@ updates

\* the request bodies of PUT /profile: any JSON object is accepted (updates: dict)
UpdateMaps ==
    {EmptyMap}
    \cup {[weight_kg |-> w] : w \in {80, 90}}
    \cup {[goal |-> "maintain_weight"]}
    \cup {[target_weight_kg |-> 70], [height_cm |-> 0], [bmi |-> 9999]}
    \cup {[created_at |-> 0], [updated_at |-> 0], [is_active |-> FALSE]}

\* the dependency get_current_user: the stored document is read here
UpdateAuth(c, tok, updates) ==
    /\ Accepts(c)
    /\ now + Cardinality(ClockReaders) < MaxClock
    /\ UNCHANGED <<users, tokens, now>>
    /\ IF Authenticated(tok)
       THEN Goto(c, "upd_write", [current_user |-> users[tok], updates |-> updates])
       ELSE Finish(c, Unauthorized("update_profile"))

\* the handler body up to update_one; an exception of the calculation is a 500
UpdateWrite(c) ==
    /\ pc[c] = "upd_write"
    /\ UNCHANGED tokens
    /\ LET current_user == loc[c]["current_user"]
           updates == loc[c]["updates"]
           id == current_user["_id"]
       IN  IF /\ recalculate_metrics(updates)
              /\ MetricsRaises(merged_user_data(current_user, updates))
           THEN /\ Finish(c, [op |-> "update_profile", status |-> 500])
                /\ UNCHANGED <<users, now>>
           ELSE /\ now' = now + 1
                /\ users' = [users EXCEPT
                       ![id] = SetFields(@, update_set(current_user, updates, now + 1))]
                /\ Goto(c, "upd_fetch",
                        [user_id |-> id,
                         updates |-> update_set(current_user, updates, now + 1)])

\* find_one by id, get_user_response
UpdateRespond(c) ==
    /\ pc[c] = "upd_fetch"
    /\ UNCHANGED <<users, tokens, now>>
    /\ Finish(c, [op |-> "update_profile", status |-> 200,
                  user |-> get_user_response(users[loc[c]["user_id"]])])

\* ------------------------------------------------------- POST /login
\* find_one by email, verify_password
LoginFind(c, email, password) ==
    /\ Accepts(c)
    /\ now + Cardinality(ClockReaders) < MaxClock
    /\ UNCHANGED <<users, tokens, now>>
    /\ LET id == FindOne("email", email)
       IN  IF id = 0 \/ ~verify_password(password, users[id]["password_hash"])
           THEN Finish(c, Unauthorized("login"))
           ELSE Goto(c, "login_write", [user |-> users[id]])

\* update_one of last_login; the response is built from the document read before it
LoginWrite(c) ==
    /\ pc[c] = "login_write"
    /\ LET user == loc[c]["user"]
           id == user["_id"]
       IN  /\ now' = now + 1
           /\ users' = [users EXCEPT ![id] = SetFields(@, [last_login |-> now + 1])]
           /\ tokens' = tokens \cup {id}
           /\ Finish(c, [op |-> "login", status |-> 200,
                         user |-> get_user_response(user), tokens |-> id])

\* ------------------------------------------------------------- next
Next ==
    \/ \E c \in Clients, input \in RegInputs : RegisterStart(c, input)
    \/ \E c \in Clients : RegisterEmail(c)
    \/ \E c \in Clients : RegisterUsername(c)
    \/ \E c \in Clients : RegisterInsert(c)
    \/ \E c \in Clients : RegisterRespond(c)
    \/ \E c \in Clients, tok \in Presentable : GetProfile(c, tok)
    \/ \E c \in Clients, tok \in Presentable, updates \in UpdateMaps :
           UpdateAuth(c, tok, updates)
    \/ \E c \in Clients : UpdateWrite(c)
    \/ \E c \in Clients : UpdateRespond(c)
    \/ \E c \in Clients, email \in Emails, password \in LoginPasswords :
           LoginFind(c, email, password)
    \/ \E c \in Clients : LoginWrite(c)

Spec == Init /\ [][Next]_vars

\* ------------------------------------------ registration round trip
\* One connection registers into the empty store and then updates its profile.
\* The registration bodies range over every gender and goal, the BMI brackets
\* (45, 60 and 90 kg) and a target weight absent or given.
WideRegInputs ==
    {[email |-> "ann@x.io", username |-> "ann", password |-> "pw1", gender |-> g,
      age |-> 30, height_cm |-> h, weight_kg |-> w, goal |-> gl, activity_level |-> al]
        @@ (IF t = <<>> THEN EmptyMap ELSE [target_weight_kg |-> t[1]]) :
        g \in {"male", "female", "other"}, h \in {160, 175}, w \in {45, 60, 90},
        gl \in {"lose_weight", "gain_weight", "maintain_weight", "build_muscle",
                "improve_endurance"},
        al \in {"sedentary", "moderate"}, t \in {<<>>, <<70>>}}

\* updates that touch no trigger field
QuietMaps == {EmptyMap, [day_streak |-> 5]}

NextRoundTrip ==
    \/ users = <<>> /\ \E input \in WideRegInputs : RegisterStart(1, input)
    \/ RegisterEmail(1)
    \/ RegisterUsername(1)
    \/ RegisterInsert(1)
    \/ RegisterRespond(1)
    \/ \E tok \in Presentable, updates \in QuietMaps : UpdateAuth(1, tok, updates)
    \/ UpdateWrite(1)
    \/ UpdateRespond(1)

SpecRoundTrip == Init /\ [][NextRoundTrip]_vars

\* ------------------------------------------------------- properties
\* the calculated fields of a document are those of its own input fields
Consistent(doc) ==
    \A k \in MetricKeys : doc[k] = calculate_all_metrics(doc)[k]

\* connection c performs the update_one of PUT /profile in this step
UpdateWrites(c) == pc[c] = "upd_write" /\ pc'[c] = "upd_fetch"

\* connection c performs the update_one of POST /login in this step
LoginWrites(c) == pc[c] = "login_write" /\ pc'[c] = "idle"

\* the document insert_one stores for a registration stamped at time t
Assembled(id, input, t) == [_id |-> id] @@ prepare_user_for_db(UserRegisterModel(input, t))

\* the stored document is as registration assembled it, but for updated_at
AsRegistered(doc) ==
    \E input \in RegInputs \cup WideRegInputs :
        [doc EXCEPT !["updated_at"] = doc["created_at"]]
            = Assembled(doc["_id"], input, doc["created_at"])

\* C1: in every reachable state every stored profile's calculated fields equal
\* calculate_all_metrics of its stored weight_kg, height_cm, age, gender,
\* activity_level, goal and target_weight_kg.
C1_StoredMetricsConsistent == \A i \in Ids : Consistent(users[i])

\* C2: a profile update writes calculate_all_metrics of the merged inputs (the
\* document read, overridden by every key of the update) when its map holds a
\* trigger key, and leaves every stored calculated field as it was when it holds none.
C2_RecomputeIffTrigger ==
    [][\A c \in Clients : UpdateWrites(c) =>
        LET current_user == loc[c]["current_user"]
            updates == loc[c]["updates"]
            id == current_user["_id"]
        IN  IF DOMAIN updates \cap TriggerKeys # {}
            THEN \A k \in MetricKeys :
                     users'[id][k] = calculate_all_metrics(updates @@ current_user)[k]
            ELSE \A k \in MetricKeys : users'[id][k] = users[id][k]]_vars

\* C3: the profile stored by an update that recomputes, whichever other update
\* ran between its read and its write, has calculated fields equal to
\* calculate_all_metrics of the stored inputs.
C3_ConcurrentUpdatesConsistent ==
    [][\A c \in Clients :
        (UpdateWrites(c) /\ recalculate_metrics(loc[c]["updates"]))
            => Consistent(users'[loc[c]["current_user"]["_id"]])]_vars

\* C4: every calculated field an update leaves in the store is the value stored
\* before or the value calculate_all_metrics produced in this update, never a
\* value of the request.
C4_NoClientSuppliedMetric ==
    [][\A c \in Clients : UpdateWrites(c) =>
        LET current_user == loc[c]["current_user"]
            updates == loc[c]["updates"]
            id == current_user["_id"]
        IN  \A k \in MetricKeys :
                \/ users'[id][k] = users[id][k]
                \/ /\ recalculate_metrics(updates)
                   /\ users'[id][k]
                        = calculate_all_metrics(merged_user_data(current_user, updates))[k]
      ]_vars

\* C5 as stated: every write to a stored profile sets updated_at to the time of
\* the write and leaves it different from its previous value.
C5_EveryWriteRefreshes ==
    [][\A i \in Ids : users'[i] # users[i] =>
        /\ users'[i]["updated_at"] = now'
        /\ users'[i]["updated_at"] # users[i]["updated_at"]]_vars

\* C5 as amended: the update_one of every profile update sets updated_at to the
\* time of the update, later than the value stored before, whatever the map
\* holds; the update_one of a login leaves updated_at as it was.
C5_UpdateRefreshesLoginDoesNot ==
    [][\A c \in Clients :
        /\ UpdateWrites(c) =>
              LET id == loc[c]["current_user"]["_id"]
              IN  /\ users'[id]["updated_at"] = now'
                  /\ users'[id]["updated_at"] > users[id]["updated_at"]
        /\ LoginWrites(c) =>
              LET id == loc[c]["user"]["_id"]
              IN  /\ users'[id]["last_login"] = now'
                  /\ users'[id]["updated_at"] = users[id]["updated_at"]]_vars

\* an update has just written a profile that a login had written before
C5_Witness ==
    \E c \in Clients :
        /\ pc[c] = "upd_fetch"
        /\ LET doc == users[loc[c]["user_id"]]
           IN  /\ doc["updated_at"] = now
               /\ "last_login" \in DOMAIN doc
               /\ doc["last_login"] < now
               /\ doc["created_at"] < doc["last_login"]

\* C6: no step changes the created_at of a stored profile.
C6_CreatedAtImmutable ==
    [][\A i \in Ids : users'[i]["created_at"] = users[i]["created_at"]]_vars

C8_SameValueUpdateIdempotent ==
    [][\A c \in Clients :
        LET current_user == loc[c]["current_user"]
            updates == loc[c]["updates"]
            id == current_user["_id"]
        IN  (/\ UpdateWrites(c)
             /\ current_user = users[id]
             /\ DOMAIN updates # {}
             /\ DOMAIN updates \subseteq TriggerKeys
             /\ \A k \in DOMAIN updates : updates[k] = users[id][k])
            => \A k \in MetricKeys : users'[id][k] = users[id][k]]_vars

\* C9: an update with an empty map on a profile as registration assembled it
\* stores the same document but for updated_at, which is the time of the update.
C9_RegisterThenEmptyUpdate ==
    [][\A c \in Clients :
        LET id == loc[c]["current_user"]["_id"]
        IN  (/\ UpdateWrites(c)
             /\ loc[c]["updates"] = EmptyMap
             /\ AsRegistered(users[id]))
            => /\ users'[id] = [users[id] EXCEPT !["updated_at"] = now']
               /\ \A k \in MetricKeys :
                      users'[id][k] = calculate_all_metrics(users'[id])[k]]_vars

\* an update that set nothing but updated_at has just written a profile that
\* is otherwise as registration assembled it
C9_Witness ==
    \E c \in Clients :
        /\ pc[c] = "upd_fetch"
        /\ DOMAIN loc[c]["updates"] = {"updated_at"}
        /\ LET doc == users[loc[c]["user_id"]]
           IN  /\ AsRegistered(doc)
               /\ doc["updated_at"] > doc["created_at"]

\* C10: a registration whose email lookup or username lookup runs while a stored
\* profile has that email or that username ends with status 400, and that step
\* inserts nothing and issues no tokens.
C10_DuplicateRejected ==
    [][\A c \in Clients :
        LET user == loc[c]["user"]
            rejected ==
                /\ pc'[c] = "idle"
                /\ resp'["op"] = "register"
                /\ resp'["status"] = 400
                /\ users' = users
                /\ tokens' = tokens
        IN  /\ (/\ pc[c] = "reg_email"
                /\ pc'[c] # "reg_email"
                /\ \E i \in Ids : users[i]["email"] = user["email"]) => rejected
            /\ (/\ pc[c] = "reg_username"
                /\ pc'[c] # "reg_username"
                /\ \E i \in Ids : users[i]["username"] = user["username"]) => rejected]_vars

\* a registration was refused for its username while one profile is stored
C10_Witness ==
    /\ resp["op"] = "register"
    /\ resp["status"] = 400
    /\ resp["detail"] = "Username already taken"
    /\ Len(users) = 1
    /\ tokens = {1}

\* C11: in every reachable state no two stored profiles share an email and no
\* two share a username.
C11_IdentityUnique ==
    \A i \in Ids : \A j \in Ids :
        i # j => /\ users[i]["email"] # users[j]["email"]
                 /\ users[i]["username"] # users[j]["username"]

\* ------------------------------------------------ MetricsEngine calls
\* A caller invokes one function of UserCalculationService on arguments drawn
\* from the sets below: pc is "call" until the function returns, loc holds the
\* arguments, resp what came back.
\* weight and height pairs: the four BMI brackets, and three whose BMI rounds up
\* onto a threshold (18.4965 -> 18.5, 24.9989 -> 25.0, 29.9967 -> 30.0)
Bodies ==
    {<<45, 175>>, <<60, 175>>, <<90, 175>>, <<90, 160>>,
     <<56, 174>>, <<57, 151>>, <<73, 156>>}

GoalValues ==
    {"lose_weight", "gain_weight", "maintain_weight", "build_muscle", "improve_endurance"}

BmiCalls ==
    {[fn |-> "calculate_bmi", weight_kg |-> w, height_cm |-> h] :
        w \in {45, 56, 70, 90}, h \in {0 - 175, 0 - 1, 0, 174, 175, 180}}

StatusCalls ==
    {[fn |-> "get_bmi_status", bmi |-> b] :
        b \in {0, 1849, 1850, 1851, 2499, 2500, 2501, 2999, 3000, 3001, 4500}}

BmrCalls ==
    {[fn |-> "calculate_bmr", weight_kg |-> w, height_cm |-> h, age |-> a, gender |-> g] :
        w \in {70, 90}, h \in {160, 175}, a \in {25, 30},
        g \in {"male", "female", "other", "MALE"}}

CalorieCalls ==
    {[fn |-> "calculate_calorie_goal", tdee |-> t, goal |-> gl,
      target_weight_kg |-> tw, current_weight_kg |-> 90] :
        t \in {50050, 259400, 259431}, gl \in GoalValues, tw \in {75, 79, 80, 85, 95}}

AllMetricsCalls ==
    {[fn |-> "calculate_all_metrics",
      user_data |->
          [weight_kg |-> b[1], height_cm |-> b[2], age |-> 30, gender |-> g,
           activity_level |-> al, goal |-> gl]
              @@ (IF t = <<>> THEN EmptyMap ELSE [target_weight_kg |-> t[1]])] :
        b \in Bodies, g \in {"male", "female"}, al \in {"sedentary", "moderate"},
        gl \in GoalValues, t \in {<<>>, <<70>>}}

\* the registration bodies that reach prepare_user_for_db
RegisterCalls == {[fn |-> "prepare_user_for_db", input |-> input] : input \in WideRegInputs}

MetricCalls ==
    BmiCalls \cup StatusCalls \cup BmrCalls \cup CalorieCalls \cup AllMetricsCalls
        \cup RegisterCalls

InitMetrics ==
    /\ users = <<>>
    /\ now = 0
    /\ tokens = {}
    /\ pc = [c \in Clients |-> IF c = 1 THEN "call" ELSE "idle"]
    /\ \E call \in MetricCalls : loc = [c \in Clients |-> IF c = 1 THEN call ELSE NoLocals]
    /\ resp = NoResponse

Calling(c, fn) == pc[c] = "call" /\ loc[c]["fn"] = fn

\* the function returns value to its caller
Returned(c, value) ==
    /\ Finish(c, [op |-> loc[c]["fn"], status |-> 0, call |-> loc[c],
                  raises |-> FALSE, value |-> value])
    /\ UNCHANGED <<users, tokens, now>>

\* the function raises an exception
Raised(c) ==
    /\ Finish(c, [op |-> loc[c]["fn"], status |-> 0, call |-> loc[c], raises |-> TRUE])
    /\ UNCHANGED <<users, tokens, now>>

CallBmi(c) ==
    /\ Calling(c, "calculate_bmi")
    /\ IF MetricsRaises(loc[c])
       THEN Raised(c)
       ELSE Returned(c, calculate_bmi(loc[c]["weight_kg"], loc[c]["height_cm"]))

CallBmiStatus(c) ==
    /\ Calling(c, "get_bmi_status")
    /\ Returned(c, get_bmi_status(loc[c]["bmi"]))

CallBmr(c) ==
    /\ Calling(c, "calculate_bmr")
    /\ Returned(c, calculate_bmr(loc[c]["weight_kg"], loc[c]["height_cm"],
                                 loc[c]["age"], loc[c]["gender"]))

CallCalorieGoal(c) ==
    /\ Calling(c, "calculate_calorie_goal")
    /\ Returned(c, calculate_calorie_goal(loc[c]["tdee"], loc[c]["goal"],
                                          loc[c]["target_weight_kg"],
                                          loc[c]["current_weight_kg"]))

CallAllMetrics(c) ==
    /\ Calling(c, "calculate_all_metrics")
    /\ IF MetricsRaises(loc[c]["user_data"])
       THEN Raised(c)
       ELSE Returned(c, calculate_all_metrics(loc[c]["user_data"]))

\* the body is validated into a UserRegisterModel (target weight defaulted, the
\* clock read) and prepare_user_for_db assembles the document to insert
CallPrepareUser(c) ==
    /\ Calling(c, "prepare_user_for_db")
    /\ now' = now + 1
    /\ Finish(c, [op |-> loc[c]["fn"], status |-> 0, call |-> loc[c], raises |-> FALSE,
                  value |-> prepare_user_for_db(UserRegisterModel(loc[c]["input"], now + 1))])
    /\ UNCHANGED <<users, tokens>>

NextMetrics ==
    \/ CallBmi(1)
    \/ CallBmiStatus(1)
    \/ CallBmr(1)
    \/ CallCalorieGoal(1)
    \/ CallAllMetrics(1)
    \/ CallPrepareUser(1)

SpecMetrics == InitMetrics /\ [][NextMetrics]_vars

\* ------------------------------------------ MetricsEngine properties
\* v is x hundredths cut to a whole number toward zero
TowardZero(x, v) ==
    IF x >= 0
    THEN 100 * v <= x /\ x < 100 * v + 100
    ELSE x <= 100 * v /\ 100 * v - 100 < x

\* v is n / d to the nearest whole number
Nearest(n, d, v) ==
    LET e == v * d - n
    IN  2 * e <= d /\ 0 - d <= 2 * e

\* status is the bracket of bmi (hundredths): underweight below 18.5, normal from
\* 18.5 to below 25, overweight from 25 to below 30, obese from 30
InBracket(bmi, status) ==
    /\ status \in {"underweight", "normal", "overweight", "obese"}
    /\ status = "underweight" <=> bmi < 1850
    /\ status = "normal" <=> (1850 <= bmi /\ bmi < 2500)
    /\ status = "overweight" <=> (2500 <= bmi /\ bmi < 3000)
    /\ status = "obese" <=> 3000 <= bmi

\* C12: calculate_calorie_goal returns, cut toward zero to an integer, tdee - 750
\* for lose_weight when current - target > 10 and tdee - 500 otherwise (a
\* difference of exactly 10 included), tdee + 400 for gain_weight and
\* build_muscle, and tdee for every other goal.
C12_CalorieGoal ==
    resp["op"] = "calculate_calorie_goal" =>
        LET a == resp["call"]
            tdee == a["tdee"]
            expected ==
                IF a["goal"] = "lose_weight"
                THEN IF a["current_weight_kg"] - a["target_weight_kg"] > 10
                     THEN tdee - 75000
                     ELSE tdee - 50000
                ELSE IF a["goal"] \in {"gain_weight", "build_muscle"}
                THEN tdee + 40000
                ELSE tdee
        IN  ~resp["raises"] /\ TowardZero(expected, resp["value"])

\* lose_weight with a difference of exactly 10 kg returned 2594.31 - 500 cut to 2094
C12_Witness ==
    /\ resp["op"] = "calculate_calorie_goal"
    /\ resp["call"]["goal"] = "lose_weight"
    /\ resp["call"]["current_weight_kg"] - resp["call"]["target_weight_kg"] = 10
    /\ resp["call"]["tdee"] = 259431
    /\ resp["value"] = 2094

C14_MaleValueOnly ==
    resp["op"] = "calculate_bmr" =>
        LET a == resp["call"]
            base == 1000 * a["weight_kg"] + 625 * a["height_cm"] - 500 * a["age"]
        IN  resp["value"] = base + (IF a["gender"] = "male" THEN 500 ELSE 0 - 16100)

\* C14 as amended: calculate_bmr adds 5 exactly when gender is male in any
\* letter case and subtracts 161 for any other value; for the same weight,
\* height and age the result for other is the result for female, and the
\* result for male is 166 above it.
C14_MaleInAnyCase ==
    resp["op"] = "calculate_bmr" =>
        LET a == resp["call"]
            base == 1000 * a["weight_kg"] + 625 * a["height_cm"] - 500 * a["age"]
            female == calculate_bmr(a["weight_kg"], a["height_cm"], a["age"], "female")
        IN  /\ ~resp["raises"]
            /\ resp["value"]
                 = base + (IF a["gender"] \in {"male", "Male", "MALE"} THEN 500 ELSE 0 - 16100)
            /\ a["gender"] = "other" => resp["value"] = female
            /\ a["gender"] = "male" => resp["value"] = female + 16600

\* gender MALE at 70 kg, 175 cm, 25 years returned the male result 1673.75
C14_Witness ==
    /\ resp["op"] = "calculate_bmr"
    /\ resp["call"]["gender"] = "MALE"
    /\ resp["call"]["weight_kg"] = 70
    /\ resp["call"]["height_cm"] = 175
    /\ resp["call"]["age"] = 25
    /\ resp["value"] = 167375

\* C15: calculate_bmi raises for every height_cm <= 0, zero and negative alike,
\* and returns no number for such a height.
C15_BmiRaisesOnNonPositiveHeight ==
    (resp["op"] = "calculate_bmi" /\ resp["call"]["height_cm"] <= 0) => resp["raises"]

C17_TargetWeightDefault ==
    resp["op"] = "prepare_user_for_db" =>
        LET input == resp["call"]["input"]
            doc == resp["value"]
            w == input["weight_kg"]
            goal == input["goal"]
            target ==
                IF "target_weight_kg" \in DOMAIN input THEN input["target_weight_kg"]
                ELSE IF goal = "lose_weight" THEN w - 10
                ELSE IF goal = "gain_weight" THEN w + 10
                ELSE IF goal = "build_muscle" THEN w + 5
                ELSE w
            calories ==
                IF goal = "lose_weight"
                THEN IF w - target > 10 THEN doc["tdee"] - 75000 ELSE doc["tdee"] - 50000
                ELSE IF goal \in {"gain_weight", "build_muscle"} THEN doc["tdee"] + 40000
                ELSE doc["tdee"]
        IN  /\ doc["target_weight_kg"] = target
            /\ TowardZero(calories, doc["recommended_daily_calories"])

\* a lose_weight registration at 90 kg without a target weight was assembled
\* with target 80 and the 500 kcal deficit
C17_Witness ==
    /\ resp["op"] = "prepare_user_for_db"
    /\ "target_weight_kg" \notin DOMAIN resp["call"]["input"]
    /\ resp["call"]["input"]["goal"] = "lose_weight"
    /\ resp["call"]["input"]["weight_kg"] = 90
    /\ resp["value"]["target_weight_kg"] = 80
    /\ 100 * resp["value"]["recommended_daily_calories"] <= resp["value"]["tdee"] - 50000
    /\ resp["value"]["tdee"] - 50000 < 100 * resp["value"]["recommended_daily_calories"] + 100

\* ------------------------------------------------ activity updates
\* One connection registers into the empty store and then sets its
\* activity_level, to each level of the table and to a value outside it.
ProfileRegInputs ==
    {[email |-> "ann@x.io", username |-> "ann", password |-> "pw1", gender |-> g,
      age |-> 30, height_cm |-> 175, weight_kg |-> w, goal |-> gl,
      activity_level |-> "moderate"] :
        g \in {"male", "female"}, w \in {60, 90}, gl \in {"lose_weight", "maintain_weight"}}

ActivityLevels == {"sedentary", "light", "moderate", "active", "very_active"}

ActivityMaps == {[activity_level |-> a] : a \in ActivityLevels \cup {"unknown_value"}}

NextProfile ==
    \/ users = <<>> /\ \E input \in ProfileRegInputs : RegisterStart(1, input)
    \/ RegisterEmail(1)
    \/ RegisterUsername(1)
    \/ RegisterInsert(1)
    \/ RegisterRespond(1)
    \/ \E tok \in Presentable, updates \in ActivityMaps : UpdateAuth(1, tok, updates)
    \/ UpdateWrite(1)
    \/ UpdateRespond(1)

SpecProfile == Init /\ [][NextProfile]_vars

\* C16: an update that carries an activity_level is written, never refused, and
\* stores tdee = the stored bmr times 1.2 for sedentary, 1.375 for light, 1.55
\* for moderate, 1.725 for active, 1.9 for very_active and 1.2 for any value
\* outside the table, rounded to two decimals; for a value outside the table
\* that is the tdee sedentary would store.
C16_UnknownActivityAsSedentary ==
    [][\A c \in Clients :
        (/\ pc[c] = "upd_write"
         /\ pc'[c] # "upd_write"
         /\ "activity_level" \in DOMAIN loc[c]["updates"])
        => LET a == loc[c]["updates"]["activity_level"]
               id == loc[c]["current_user"]["_id"]
               stored == users'[id]
               multiplier ==
                   CASE a = "sedentary" -> 1200
                     [] a = "light" -> 1375
                     [] a = "moderate" -> 1550
                     [] a = "active" -> 1725
                     [] a = "very_active" -> 1900
                     [] OTHER -> 1200
           IN  /\ UpdateWrites(c)
               /\ stored["activity_level"] = a
               /\ Nearest(stored["bmr"] * multiplier, 1000, stored["tdee"])
               /\ a \notin ActivityLevels =>
                      stored["tdee"]
                        = calculate_all_metrics(
                              [stored EXCEPT !["activity_level"] = "sedentary"])["tdee"]
      ]_vars

\* an update to an activity_level outside the table was answered 200 with
\* tdee = bmr times 1.2
C16_Witness ==
    /\ resp["op"] = "update_profile"
    /\ resp["status"] = 200
    /\ resp["user"]["activity_level"] = "unknown_value"
    /\ Nearest(resp["user"]["bmr"] * 1200, 1000, resp["user"]["tdee"])

\* -------------------------------------------------- MealPlanAssembler
\* A response text of the AI collaborator is a sequence of symbols: "J" is the
\* seven characters ```json, "F" a fence ``` that no json follows, "{" and "}"
\* the braces, "m" one JSON member ("a": 1), " " white space and "x" a
\* character of prose.  "?" is a member cut short; no response text holds it.
Alphabet == {"J", "F", "{", "}", "m", " ", "x"}

Texts == UNION {[1..n -> Alphabet] : n \in 0..MaxText}

\* str.find from position from (1-based): the first position of a symbol of
\* syms, 0 when there is none (Python's -1)
find(text, syms, from) ==
    LET hits == {i \in from..Len(text) : text[i] \in syms}
    IN  IF hits = {} THEN 0 ELSE CHOOSE i \in hits : \A j \in hits : i <= j

\* str.rfind: the last position of a symbol of syms, 0 when there is none
rfind(text, syms) ==
    LET hits == {i \in 1..Len(text) : text[i] \in syms}
    IN  IF hits = {} THEN 0 ELSE CHOOSE i \in hits : \A j \in hits : j <= i

\* str.strip
strip(text) ==
    LET black == {i \in 1..Len(text) : text[i] # " "}
    IN  IF black = {} THEN <<>>
        ELSE SubSeq(text, CHOOSE i \in black : \A j \in black : i <= j,
                          CHOOSE i \in black : \A j \in black : j <= i)

\* text[:-1]: the text without its last character
but_last_char(text) ==
    IF text = <<>> THEN <<>>
    ELSE IF text[Len(text)] = "m" THEN SubSeq(text, 1, Len(text) - 1) \o <<"?">>
    ELSE SubSeq(text, 1, Len(text) - 1)

NotSpace(sym) == sym # " "

\* json.loads: the tokens of the document, white space dropped
tokens_of(json_text) == SelectSeq(json_text, NotSpace)

\* json.loads raises unless the text is one object, empty or with one member
json_raises(json_text) == tokens_of(json_text) \notin {<<"{", "}">>, <<"{", "m", "}">>}

\* the text handed to json.loads by generate_meal_plan; <<"no json">> stands for
\* the ValueError of the else branch
json_text_of(response_text) ==
    IF find(response_text, {"J"}, 1) # 0
    THEN LET json_start == find(response_text, {"J"}, 1) + 1
             json_end == find(response_text, {"J", "F"}, json_start)
         IN  IF json_end # 0
             THEN strip(SubSeq(response_text, json_start, json_end - 1))
             \* find returned -1: the slice runs to the last character but one
             ELSE strip(but_last_char(SubSeq(response_text, json_start, Len(response_text))))
    ELSE IF find(response_text, {"{"}, 1) # 0
    THEN SubSeq(response_text, find(response_text, {"{"}, 1), rfind(response_text, {"}"}))
    ELSE <<"no json">>

ExtractCalls == {[fn |-> "generate_meal_plan", response_text |-> t] : t \in Texts}

\* the days of a plan and the keys of a day
Days == {"monday", "tuesday", "wednesday", "thursday", "friday", "saturday", "sunday"}
Slots == {"breakfast", "lunch", "dinner", "snacks"}
Totals == {"total_calories", "total_protein", "total_carbs", "total_fat"}

Oats == [name |-> "oats", calories |-> 400, protein |-> 25, carbs |-> 45, fat |-> 12]
Rice == [name |-> "rice", calories |-> 600, protein |-> 30, carbs |-> 80, fat |-> 15,
         fiber |-> 8]
\* a meal without the required name
Nameless == [calories |-> 400, protein |-> 25, carbs |-> 45, fat |-> 12]

FullDay ==
    [breakfast |-> <<Oats>>, lunch |-> <<Rice, Oats>>, dinner |-> <<Rice>>,
     snacks |-> <<Oats>>, total_calories |-> 2000, total_protein |-> 120,
     total_carbs |-> 250, total_fat |-> 65]

Restrict(f, keys) == [k \in DOMAIN f \cap keys |-> f[k]]

\* the shapes a day of the parsed data takes: complete, missing slots, missing
\* totals, empty, or with a malformed meal
DayShapes ==
    {Restrict(FullDay, keys) :
        keys \in {Slots \cup Totals, Slots, Totals, {"breakfast"}, {},
                  (Slots \cup Totals) \ {"snacks", "total_fat"}}}
    \cup {[FullDay EXCEPT !["lunch"] = <<Nameless>>]}

\* the parsed data: any subset of the days, each present day of one shape
PlanData == {[d \in present |-> shape] : present \in SUBSET Days, shape \in DayShapes}

\* date.today() as a day number, day 0 a Monday
Todays == {14, 17}

AssembleCalls ==
    {[fn |-> "create_weekly_meal_plan_model", user_id |-> 1, meal_plan_data |-> data,
      today |-> t] : data \in PlanData, t \in Todays}

MealCalls == ExtractCalls \cup AssembleCalls

InitMealPlan ==
    /\ users = <<>>
    /\ now = 0
    /\ tokens = {}
    /\ pc = [c \in Clients |-> IF c = 1 THEN "call" ELSE "idle"]
    /\ \E call \in MealCalls : loc = [c \in Clients |-> IF c = 1 THEN call ELSE NoLocals]
    /\ resp = NoResponse

\* generate_meal_plan from the response text on: extract, parse, and any
\* exception re-raised as "Failed to generate meal plan"
GenerateMealPlan(c) ==
    /\ Calling(c, "generate_meal_plan")
    /\ LET json_text == json_text_of(loc[c]["response_text"])
       IN  IF json_text = <<"no json">> \/ json_raises(json_text)
           THEN Raised(c)
           ELSE Returned(c, tokens_of(json_text))

\* dict.get(key, default)
Get(d, key, default) == IF key \in DOMAIN d THEN d[key] ELSE default

\* MealItem(**meal) raises a validation error when a required field is missing
MealItemRaises(meal) == ~({"name", "calories", "protein", "carbs", "fat"} \subseteq DOMAIN meal)

\* MealItem(**meal): the optional fields take their defaults
MealItem(meal) ==
    [fiber |-> "None", description |-> "None", preparation_time |-> "None",
     ingredients |-> <<>>, instructions |-> "None"] @@ meal

MealItems(meals) == [i \in 1..Len(meals) |-> MealItem(meals[i])]

\* meal_plan_data.get(day_name, {}) falling back to monday's data
day_data_or_monday(meal_plan_data, day_name) ==
    IF day_name \in DOMAIN meal_plan_data THEN meal_plan_data[day_name]
    ELSE Get(meal_plan_data, "monday", EmptyMap)

\* meal_plan_data.get(day_name, {})
day_data_of(meal_plan_data, day_name) == Get(meal_plan_data, day_name, EmptyMap)

DayMealPlan(day_data) ==
    [breakfast |-> MealItems(Get(day_data, "breakfast", <<>>)),
     lunch |-> MealItems(Get(day_data, "lunch", <<>>)),
     dinner |-> MealItems(Get(day_data, "dinner", <<>>)),
     snacks |-> MealItems(Get(day_data, "snacks", <<>>)),
     total_calories |-> Get(day_data, "total_calories", 0),
     total_protein |-> Get(day_data, "total_protein", 0),
     total_carbs |-> Get(day_data, "total_carbs", 0),
     total_fat |-> Get(day_data, "total_fat", 0)]

\* some MealItem(**meal) of the loop raises
AssemblyRaises(meal_plan_data) ==
    \E day_name \in Days : \E slot \in Slots :
        LET meals == Get(day_data_of(meal_plan_data, day_name), slot, <<>>)
        IN  \E i \in 1..Len(meals) : MealItemRaises(meals[i])

\* the WeeklyMealPlan, without the id and the two timestamps its default
\* factories add; week_start is the Monday on or before today
create_weekly_meal_plan_model(user_id, meal_plan_data, today) ==
    [day_name \in Days |-> DayMealPlan(day_data_of(meal_plan_data, day_name))]
        @@ [user_id |-> user_id, week_start_date |-> today - (today % 7)]

CreateWeeklyMealPlanModel(c) ==
    /\ Calling(c, "create_weekly_meal_plan_model")
    /\ IF AssemblyRaises(loc[c]["meal_plan_data"])
       THEN Raised(c)
       ELSE Returned(c, create_weekly_meal_plan_model(
                            loc[c]["user_id"], loc[c]["meal_plan_data"], loc[c]["today"]))

NextMealPlan ==
    \/ GenerateMealPlan(1)
    \/ CreateWeeklyMealPlanModel(1)

SpecMealPlan == InitMealPlan /\ [][NextMealPlan]_vars

\* ----------------------------------------------- MealPlanAssembler properties
\* the text holds a fenced block marked as JSON: an opening ```json and a fence after it
HasFencedBlock(text) ==
    /\ find(text, {"J"}, 1) # 0
    /\ find(text, {"J", "F"}, find(text, {"J"}, 1) + 1) # 0

\* the substring the extraction policy selects; <<"none">> when it selects none
PolicyText(text) ==
    IF HasFencedBlock(text)
    THEN SubSeq(text, find(text, {"J"}, 1) + 1,
                find(text, {"J", "F"}, find(text, {"J"}, 1) + 1) - 1)
    ELSE IF \E i \in 1..Len(text) : text[i] = "{"
    THEN SubSeq(text, find(text, {"{"}, 1), rfind(text, {"}"}))
    ELSE <<"none">>

\* C18: for every response text generate_meal_plan parses the interior of the
\* fenced JSON block when the text has one, else the substring from the first
\* "{" to the last "}" when it has a "{", and fails otherwise; it fails when
\* the selected substring does not parse, and returns the parsed data when it does.
C18_ExtractionOrder ==
    resp["op"] = "generate_meal_plan" =>
        LET selected == PolicyText(resp["call"]["response_text"])
        IN  IF selected = <<"none">> \/ json_raises(selected)
            THEN resp["raises"]
            ELSE ~resp["raises"] /\ resp["value"] = tokens_of(selected)

EmptyDay ==
    [breakfast |-> <<>>, lunch |-> <<>>, dinner |-> <<>>, snacks |-> <<>>,
     total_calories |-> 0, total_protein |-> 0, total_carbs |-> 0, total_fat |-> 0]

\* every meal of the parsed data has the fields a MealItem requires
MealsWellFormed(data) ==
    \A day \in DOMAIN data : \A slot \in Slots \cap DOMAIN data[day] :
        \A i \in 1..Len(data[day][slot]) :
            {"name", "calories", "protein", "carbs", "fat"} \subseteq DOMAIN data[day][slot][i]

\* C19: assembling a weekly plan from parsed data with any subset of the seven
\* days missing (its meals well formed) succeeds; the plan has exactly the
\* seven days; a missing day is a day-plan with four empty slots and zero
\* totals; in a present day a missing slot is the empty sequence, a missing
\* total is zero, and what is present is kept.
C19_MissingDaysDefault ==
    (/\ resp["op"] = "create_weekly_meal_plan_model"
     /\ MealsWellFormed(resp["call"]["meal_plan_data"]))
    => LET data == resp["call"]["meal_plan_data"]
           plan == resp["value"]
       IN  /\ ~resp["raises"]
           /\ DOMAIN plan \ {"user_id", "week_start_date"} = Days
           /\ \A day \in Days \ DOMAIN data : plan[day] = EmptyDay
           /\ \A day \in DOMAIN data :
                  /\ DOMAIN plan[day] = Slots \cup Totals
                  /\ \A slot \in Slots \ DOMAIN data[day] : plan[day][slot] = <<>>
                  /\ \A total \in Totals \ DOMAIN data[day] : plan[day][total] = 0
                  /\ \A total \in Totals \cap DOMAIN data[day] :
                         plan[day][total] = data[day][total]
                  /\ \A slot \in Slots \cap DOMAIN data[day] :
                         /\ Len(plan[day][slot]) = Len(data[day][slot])
                         /\ \A i \in 1..Len(data[day][slot]) :
                                plan[day][slot][i]["name"] = data[day][slot][i]["name"]

\* data without friday, and with monday lacking snacks and total_fat, was
\* assembled: friday all empty, monday's breakfast kept, its snacks empty
C19_Witness ==
    /\ resp["op"] = "create_weekly_meal_plan_model"
    /\ ~resp["raises"]
    /\ DOMAIN resp["call"]["meal_plan_data"] = Days \ {"friday"}
    /\ "snacks" \notin DOMAIN resp["call"]["meal_plan_data"]["monday"]
    /\ resp["value"]["friday"] = EmptyDay
    /\ Len(resp["value"]["monday"]["breakfast"]) = 1
    /\ resp["value"]["monday"]["snacks"] = <<>>
    /\ resp["value"]["monday"]["total_fat"] = 0
    /\ resp["value"]["monday"]["total_calories"] = 2000

\* ------------------------------------------------ deactivated profiles
\* connection c takes a PUT /profile past get_current_user in this step
UpdateAdmitted(c) == pc[c] = "idle" /\ pc'[c] = "upd_write"

\* connection c answers a GET /profile with 200 in this step
ProfileServed(c) ==
    /\ Accepts(c)
    /\ pc' = pc
    /\ resp'["op"] = "get_profile"
    /\ resp'["status"] = 200

\* C21 (admission): a get-profile or update-profile request is let past
\* get_current_user only for a stored profile whose is_active is true, and
\* that step leaves the store unchanged.
C21_InactiveRejected ==
    [][\A c \in Clients :
        /\ UpdateAdmitted(c) =>
               LET id == loc'[c]["current_user"]["_id"]
               IN  id \in Ids /\ users[id]["is_active"] /\ users' = users
        /\ ProfileServed(c) =>
               /\ users' = users
               /\ \E id \in Ids : /\ users[id]["is_active"]
                                  /\ users[id]["email"] = resp'["user"]["email"]]_vars

\* C21: as above, and once the is_active of a stored profile is false no
\* update_one of a profile update changes that profile.
C21_InactiveProfileFrozen ==
    [][\A c \in Clients :
        /\ UpdateAdmitted(c) =>
               LET id == loc'[c]["current_user"]["_id"]
               IN  id \in Ids /\ users[id]["is_active"] /\ users' = users
        /\ ProfileServed(c) =>
               /\ users' = users
               /\ \E id \in Ids : /\ users[id]["is_active"]
                                  /\ users[id]["email"] = resp'["user"]["email"]
        /\ UpdateWrites(c) =>
               LET id == loc[c]["current_user"]["_id"]
               IN  ~users[id]["is_active"] => users'[id] = users[id]]_vars

====
